---- MODULE Spec2Model ----
(***************************************************************************)
(* A model of the simulation engine: the GameLoop tick scheduler with its  *)
(* two intake queues (backend/game_loop.py), the Area entity registry with *)
(* dirty/removed tracking (backend/simulation/area.py), the SpatialGrid    *)
(* (backend/simulation/spatial.py), the PlayerCharacter controller         *)
(* (backend/simulation/player.py) and Entity / PartyMember                 *)
(* (backend/simulation/entity.py, party.py).                               *)
(*                                                                         *)
(* Entity objects live on a heap (heap: reference -> fields) so that the   *)
(* Area's map and the controller's list can share or not share objects, as *)
(* Python references do.  Positions and velocities are integers: the       *)
(* velocities the code produces are multiples of 50 and the tick length is *)
(* 1/TICK_RATE, so every product vx * delta_time is a whole number.        *)
(***************************************************************************)
EXTENDS Integers, Sequences, FiniteSets, TLC

VARIABLES
    \* ---- Entity objects (entity.py, party.py)
    heap,
    \* ---- Area (area.py) and its SpatialGrid (spatial.py)
    entities, dirty_entities, removed_entities, player_controller,
    grid, entity_positions,
    \* ---- PlayerCharacter (player.py)
    controlled_entity_ids, controlled_entity_objs, active_entity_index,
    controlled_entity_history, entities_controlled,
    \* ---- GameLoop (game_loop.py)
    running, paused, tick_count, player_action_queue, party_command_queue,
    current_area, tick_age, current_thread,
    \* ---- control state of the loop threads and of the intake callers
    pc, item, saw_paused, caller,
    \* ---- what the program returned or sent last
    last_delta, emitted,
    \* ---- history (ghost) variables the properties are stated over
    step, delta_run, next_seq, handed, removed_pending, was_pending,
    ever_removed, removed_absent, last_sent,
    stop_idle, sent_tick, moved

area_vars == <<entities, dirty_entities, removed_entities, player_controller,
               grid, entity_positions>>
player_vars == <<controlled_entity_ids, controlled_entity_objs,
                 active_entity_index, controlled_entity_history,
                 entities_controlled>>
loop_vars == <<running, paused, tick_count, player_action_queue,
               party_command_queue, current_area, tick_age, current_thread>>
ctl_vars == <<pc, item, saw_paused, caller>>
out_vars == <<last_delta, emitted>>
area_ghost == <<removed_pending, ever_removed, removed_absent, last_sent>>
\* was_pending: removed_pending as the get_state_delta just taken found it
loop_ghost == <<next_seq, handed, stop_idle, sent_tick, moved>>
ghost_vars == <<step, delta_run, was_pending, area_ghost, loop_ghost>>
vars == <<heap, area_vars, player_vars, loop_vars, ctl_vars, out_vars, ghost_vars>>

----------------------------------------------------------------------------
(* Bounds of the model *)

\* largest |coordinate| an entity may reach; Area.update is not taken beyond it
MaxPos == 40
\* entries appended to the intake queues in one behaviour (they are numbered)
MaxEnq == 2
\* largest tick_count explored
MaxTicks == 1
\* TICK_DURATION in units of the model's clock
TickUnits == 1
\* longest controlled list explored; add_controlled_entity is not taken beyond it
MaxControlled == 3

(* Program constants *)

TICK_RATE == 10
CELL_SIZE == 32
BASE_SPEED == 50

----------------------------------------------------------------------------
(* Small helpers *)

Range(s) == {s[i] : i \in DOMAIN s}

RECURSIVE ListOf(_)
\* list(a_set): every member once
ListOf(S) == IF S = {} THEN <<>>
             ELSE LET m == CHOOSE m \in S : TRUE IN <<m>> \o ListOf(S \ {m})

Count(x, s) == Cardinality({i \in DOMAIN s : s[i] = x})

RemoveFirst(s, x) ==
    IF x \notin Range(s) THEN s
    ELSE LET i == CHOOSE k \in DOMAIN s : s[k] = x /\ \A j \in 1..(k-1) : s[j] # x
         IN  SubSeq(s, 1, i-1) \o SubSeq(s, i+1, Len(s))

Put(f, k, v) == [x \in (DOMAIN f) \cup {k} |-> IF x = k THEN v ELSE f[x]]

Del(f, k) == [x \in (DOMAIN f) \ {k} |-> f[x]]

EmptyMap == [x \in {} |-> 0]

\* dict.get(key, default) on a payload that is a mapping
Get(a, key, default) == IF key \in DOMAIN a THEN a[key] ELSE default

\* the history variable: the operation taken last, who took it and how it
\* returned; delta_run tells how many get_state_delta calls were made in a
\* row just now (2: two or more) and what the first of them returned
Step(kind, actor, ret) ==
    /\ step' = [kind |-> kind, actor |-> actor, ret |-> ret]
    /\ delta_run' = IF kind # "get_state_delta" THEN [n |-> 0, first |-> "none"]
                    ELSE IF delta_run.n = 0 THEN [n |-> 1, first |-> ret]
                    ELSE [n |-> 2, first |-> delta_run.first]

\* the same, for an operation whose argument the properties speak of
StepOn(kind, actor, ret, arg) ==
    /\ step' = [kind |-> kind, actor |-> actor, ret |-> ret, arg |-> arg]
    /\ delta_run' = [n |-> 0, first |-> "none"]

\* a step the properties do not single out
OtherStep == Step("other", "any", "none")

\* nothing is returned or sent by a step
NotSent == [sent |-> FALSE]

EmptyDelta == [nonempty |-> FALSE, entities |-> EmptyMap, removed |-> <<>>]

\* last_delta and emitted hold what the step just taken returned and sent
Quiet == last_delta' = EmptyDelta /\ emitted' = NotSent /\ was_pending' = {}

----------------------------------------------------------------------------
(* Entity, PartyMember *)

\* Entity.__init__ / PartyMember.__init__
NewEntity(id, cls, x, y) ==
    [entity_id |-> id, cls |-> cls, x |-> x, y |-> y, vx |-> 0, vy |-> 0,
     state |-> "idle", facing |-> "down", is_dirty |-> TRUE,
     walking_speed |-> 1,
     ai_mode |-> IF cls = "PartyMember" THEN "follow" ELSE "none"]

\* The entity objects that exist: two entities, and a second object carrying
\* the id "e1" (what Entity.load_by_id creates for an id already loaded).
Objects == << NewEntity("e1", "Entity", 30, 30),
              NewEntity("e2", "PartyMember", 0, 0),
              NewEntity("e1", "Entity", 30, 30) >>

Refs == DOMAIN Objects

Ids == {Objects[r].entity_id : r \in Refs}

\* a slip: only the horizontal velocity is looked at
EntityUpdateBy_vx_only(e, n) ==
    IF e.vx # 0
    THEN [e EXCEPT !.x = @ + ((e.vx * n) \div TICK_RATE),
                   !.y = @ + ((e.vy * n) \div TICK_RATE),
                   !.is_dirty = TRUE]
    ELSE e

\* Entity.update(delta_time) with delta_time = n / TICK_RATE seconds
EntityUpdateBy(e, n) ==
    IF e.vx # 0 \/ e.vy # 0
    THEN [e EXCEPT !.x = @ + ((e.vx * n) \div TICK_RATE),
                   !.y = @ + ((e.vy * n) \div TICK_RATE),
                   !.is_dirty = TRUE]
    ELSE e

\* Entity.update(delta_time) with delta_time = TICK_DURATION = 1 / TICK_RATE
EntityUpdate(e) == EntityUpdateBy(e, 1)

\* Entity.serialize(): the attributes the simulation changes
Serialize(e) == [id |-> e.entity_id, x |-> e.x, y |-> e.y, vx |-> e.vx,
                 vy |-> e.vy, state |-> e.state, facing |-> e.facing]

\* Entity.receive_command (a no-op) and PartyMember.receive_command
ReceiveCommand(e, c) ==
    IF e.cls # "PartyMember" THEN e
    ELSE CASE Get(c, "type", "") = "follow" ->
                [e EXCEPT !.ai_mode = "follow", !.state = "following",
                          !.is_dirty = TRUE]
           [] Get(c, "type", "") = "hold_position" ->
                [e EXCEPT !.ai_mode = "hold_position", !.vx = 0, !.vy = 0,
                          !.state = "idle", !.is_dirty = TRUE]
           [] Get(c, "type", "") = "attack_target" ->
                [e EXCEPT !.ai_mode = "attack", !.state = "attacking",
                          !.is_dirty = TRUE]
           [] Get(c, "type", "") = "move_to" ->
                [e EXCEPT !.ai_mode = "move_to", !.state = "moving",
                          !.is_dirty = TRUE]
           [] OTHER -> e

----------------------------------------------------------------------------
(* Payloads.  A payload is whatever the client sent: `mapping` is FALSE for *)
(* one that is not a JSON object (a string, a list), on which .get raises.  *)

Action(type, dx, dy, target, party) ==
    [mapping |-> TRUE, type |-> type, dx |-> dx, dy |-> dy,
     target_entity_id |-> target, apply_to_party |-> party]

BadPayload == [mapping |-> FALSE]

\* a move action without "direction", and an action without "type"
MoveNoDirection ==
    [mapping |-> TRUE, type |-> "move", target_entity_id |-> "",
     apply_to_party |-> FALSE]

NoType == [mapping |-> TRUE, dx |-> 0, dy |-> 1]

Command(member, type) == [mapping |-> TRUE, member_id |-> member, type |-> type]

\* a command without "member_id"
NoMember == [mapping |-> TRUE, type |-> "follow"]

----------------------------------------------------------------------------
(* SpatialGrid *)

\* SpatialGrid._get_cell
GetCell(x, y) == <<x \div CELL_SIZE, y \div CELL_SIZE>>

\* SpatialGrid.insert
GridInsert(g, ep, e) ==
    LET cell == GetCell(e.x, e.y)
        old  == IF cell \in DOMAIN g THEN g[cell] ELSE {}
    IN  [grid |-> Put(g, cell, old \cup {e.entity_id}),
         entity_positions |-> Put(ep, e.entity_id, cell)]

\* SpatialGrid.remove
GridRemove(g, ep, e) ==
    IF e.entity_id \in DOMAIN ep
    THEN LET cell == ep[e.entity_id]
         IN  [grid |-> IF cell \in DOMAIN g
                       THEN [g EXCEPT ![cell] = @ \ {e.entity_id}]
                       ELSE g,
              entity_positions |-> Del(ep, e.entity_id)]
    ELSE [grid |-> g, entity_positions |-> ep]

\* a slip: the id stays in the cell it leaves
GridUpdate_keeps_old(g, ep, e) ==
    LET id       == e.entity_id
        new_cell == GetCell(e.x, e.y)
    IN  IF id \in DOMAIN ep /\ ep[id] = new_cell
        THEN [grid |-> g, entity_positions |-> ep]
        ELSE LET cur == IF new_cell \in DOMAIN g THEN g[new_cell] ELSE {}
             IN  [grid |-> Put(g, new_cell, cur \cup {id}),
                  entity_positions |-> Put(ep, id, new_cell)]

\* SpatialGrid.update
GridUpdate(g, ep, e) ==
    LET id       == e.entity_id
        new_cell == GetCell(e.x, e.y)
    IN  IF id \in DOMAIN ep /\ ep[id] = new_cell
        THEN [grid |-> g, entity_positions |-> ep]
        ELSE LET g1  == IF id \in DOMAIN ep /\ ep[id] \in DOMAIN g
                        THEN [g EXCEPT ![ep[id]] = @ \ {id}]
                        ELSE g
                 cur == IF new_cell \in DOMAIN g1 THEN g1[new_cell] ELSE {}
             IN  [grid |-> Put(g1, new_cell, cur \cup {id}),
                  entity_positions |-> Put(ep, id, new_cell)]

\* SpatialGrid.query_area
QueryArea(g, x, y, width, height) ==
    LET min_col == x \div CELL_SIZE
        max_col == (x + width) \div CELL_SIZE
        min_row == y \div CELL_SIZE
        max_row == (y + height) \div CELL_SIZE
    IN  UNION {g[c] : c \in ((min_col .. max_col) \X (min_row .. max_row))
                              \cap DOMAIN g}

\* the entities_dict argument of query_radius: None, or a map from ids to
\* entity objects
NoLookup == [given |-> FALSE]

Lookup(ents) == [given |-> TRUE, map |-> ents]

\* a slip: the candidates are not filtered by their distance
QueryRadius_unfiltered(g, h, x, y, radius, lookup) ==
    LET candidates == QueryArea(g, x - radius, y - radius, radius * 2, radius * 2)
    IN  IF ~lookup.given THEN candidates
        ELSE {id \in candidates : id \in DOMAIN lookup.map}

\* SpatialGrid.query_radius
QueryRadius(g, h, x, y, radius, lookup) ==
    LET candidates == QueryArea(g, x - radius, y - radius, radius * 2, radius * 2)
    IN  IF ~lookup.given THEN candidates
        ELSE {id \in candidates :
                 /\ id \in DOMAIN lookup.map
                 /\ LET dx == h[lookup.map[id]].x - x
                        dy == h[lookup.map[id]].y - y
                    IN  dx * dx + dy * dy <= radius * radius}

----------------------------------------------------------------------------
(* PlayerCharacter *)

\* PlayerCharacter.get_active_entity: the active object, as a set (empty: None)
ActiveEntity(objs, idx) ==
    IF 0 <= idx /\ idx < Len(objs) THEN {objs[idx + 1]} ELSE {}

\* a slip: every controlled entity is a target, whatever the action names
TargetEntities_whole_party(h, objs, idx, a) == Range(objs)

\* execute_action, lines 145-156: the objects the action applies to
TargetEntities(h, objs, idx, a) ==
    IF Get(a, "apply_to_party", FALSE) THEN Range(objs)
    ELSE IF Get(a, "target_entity_id", "") # ""
         THEN {r \in Range(objs) : h[r].entity_id = a.target_entity_id}
         ELSE ActiveEntity(objs, idx)

\* a slip: up and down are the wrong way round
Facing_updown(e, vx, vy) ==
    IF vy < 0 THEN "down"
    ELSE IF vy > 0 THEN "up"
    ELSE IF vx < 0 THEN "left"
    ELSE IF vx > 0 THEN "right"
    ELSE e.facing

\* execute_action, lines 175-182
Facing(e, vx, vy) ==
    IF vy < 0 THEN "up"
    ELSE IF vy > 0 THEN "down"
    ELSE IF vx < 0 THEN "left"
    ELSE IF vx > 0 THEN "right"
    ELSE e.facing

\* a slip: the walking-speed modifier is left out
ApplyAction_no_modifier(e, a) ==
    CASE Get(a, "type", "") = "move" ->
            LET speed == BASE_SPEED
                vx    == Get(a, "dx", 0) * speed
                vy    == Get(a, "dy", 0) * speed
            IN  [e EXCEPT !.vx = vx, !.vy = vy,
                          !.state = IF vx # 0 \/ vy # 0 THEN "moving" ELSE "idle",
                          !.facing = Facing(e, vx, vy),
                          !.is_dirty = TRUE]
      [] Get(a, "type", "") = "attack"   -> [e EXCEPT !.state = "attacking", !.is_dirty = TRUE]
      [] Get(a, "type", "") = "use_item" -> [e EXCEPT !.state = "using_item", !.is_dirty = TRUE]
      [] Get(a, "type", "") = "interact" -> [e EXCEPT !.state = "interacting", !.is_dirty = TRUE]
      [] OTHER -> e

\* execute_action, lines 163-202: the action applied to one target entity
ApplyAction(e, a) ==
    CASE Get(a, "type", "") = "move" ->
            LET speed == BASE_SPEED * e.walking_speed
                vx    == Get(a, "dx", 0) * speed
                vy    == Get(a, "dy", 0) * speed
            IN  [e EXCEPT !.vx = vx, !.vy = vy,
                          !.state = IF vx # 0 \/ vy # 0 THEN "moving" ELSE "idle",
                          !.facing = Facing(e, vx, vy),
                          !.is_dirty = TRUE]
      [] Get(a, "type", "") = "attack"   -> [e EXCEPT !.state = "attacking", !.is_dirty = TRUE]
      [] Get(a, "type", "") = "use_item" -> [e EXCEPT !.state = "using_item", !.is_dirty = TRUE]
      [] Get(a, "type", "") = "interact" -> [e EXCEPT !.state = "interacting", !.is_dirty = TRUE]
      [] OTHER -> e

\* PlayerCharacter.execute_action on a mapping: the heap afterwards
ExecuteAction(h, objs, idx, a) ==
    LET targets == TargetEntities(h, objs, idx, a)
    IN  [r \in DOMAIN h |-> IF r \in targets THEN ApplyAction(h[r], a) ELSE h[r]]

\* a slip: the history is not looked at
InHistory_never(hist, id) == FALSE

\* add_controlled_entity, line 67: the id was controlled before
InHistory(hist, id) == id \in Range(hist)

\* PlayerCharacter.add_controlled_entity
AddControlledEntity(r) ==
    /\ LET id == heap[r].entity_id IN
       IF id \notin Range(controlled_entity_ids)
       THEN /\ Len(controlled_entity_objs) < MaxControlled
            /\ controlled_entity_ids' = Append(controlled_entity_ids, id)
            /\ controlled_entity_objs' = Append(controlled_entity_objs, r)
            /\ IF ~InHistory(controlled_entity_history, id)
               THEN /\ controlled_entity_history' = Append(controlled_entity_history, id)
                    /\ entities_controlled' = entities_controlled + 1
               ELSE UNCHANGED <<controlled_entity_history, entities_controlled>>
       ELSE UNCHANGED <<controlled_entity_ids, controlled_entity_objs,
                        controlled_entity_history, entities_controlled>>
    /\ Step("add_controlled_entity", "main", "none")
    /\ UNCHANGED <<heap, area_vars, active_entity_index, loop_vars, ctl_vars,
                   area_ghost, loop_ghost>>
    /\ Quiet

\* a slip: the index is left as it is
IndexAfterRemove_unclamped(idx, n) == idx

\* remove_controlled_entity, lines 80-82: the active index once n objects are left
IndexAfterRemove(idx, n) ==
    IF idx >= n THEN (IF n - 1 > 0 THEN n - 1 ELSE 0) ELSE idx

\* PlayerCharacter.remove_controlled_entity; list.remove(entity) raises
\* ValueError when the very object is not in the list (the id list has then
\* already lost the id)
RemoveControlledEntity(r) ==
    /\ LET id == heap[r].entity_id IN
       IF id \in Range(controlled_entity_ids)
       THEN /\ controlled_entity_ids' = RemoveFirst(controlled_entity_ids, id)
            /\ IF r \in Range(controlled_entity_objs)
               THEN LET objs == RemoveFirst(controlled_entity_objs, r) IN
                    /\ controlled_entity_objs' = objs
                    /\ active_entity_index' =
                          IndexAfterRemove(active_entity_index, Len(objs))
                    /\ Step("remove_controlled_entity", "main", "none")
               ELSE /\ UNCHANGED <<controlled_entity_objs, active_entity_index>>
                    /\ Step("remove_controlled_entity", "main", "raise")
       ELSE /\ UNCHANGED <<controlled_entity_ids, controlled_entity_objs,
                           active_entity_index>>
            /\ Step("remove_controlled_entity", "main", "none")
    /\ UNCHANGED <<heap, area_vars, controlled_entity_history, entities_controlled,
                   loop_vars, ctl_vars, area_ghost, loop_ghost>>
    /\ Quiet

\* the controller's methods that set the active index leave all else alone
OnlyActiveIndex ==
    /\ UNCHANGED <<heap, area_vars, controlled_entity_ids, controlled_entity_objs,
                   controlled_entity_history, entities_controlled, loop_vars,
                   ctl_vars, area_ghost, loop_ghost>>
    /\ Quiet

\* PlayerCharacter.set_active_entity_by_index
SetActiveEntityByIndex(index) ==
    /\ active_entity_index' =
           IF 0 <= index /\ index < Len(controlled_entity_objs)
           THEN index ELSE active_entity_index
    /\ Step("set_active_entity_by_index", "main", "none")
    /\ OnlyActiveIndex

\* PlayerCharacter.set_active_entity_by_id: the first object with that id
SetActiveEntityById(id) ==
    /\ LET found == {i \in DOMAIN controlled_entity_objs :
                        heap[controlled_entity_objs[i]].entity_id = id}
       IN  active_entity_index' =
               IF found = {} THEN active_entity_index
               ELSE (CHOOSE i \in found : \A j \in found : i <= j) - 1
    /\ Step("set_active_entity_by_id", "main", "none")
    /\ OnlyActiveIndex

\* PlayerCharacter.cycle_active_entity
CycleActiveEntity(direction) ==
    /\ active_entity_index' =
           IF controlled_entity_objs # <<>>
           THEN (active_entity_index + direction) % Len(controlled_entity_objs)
           ELSE active_entity_index
    /\ Step("cycle_active_entity", "main", "none")
    /\ OnlyActiveIndex

----------------------------------------------------------------------------
(* Area.  Each Area_* formula is the effect of one Area method on the Area, *)
(* the entity objects and the history of removals; the actions below add    *)
(* who calls it.                                                            *)

\* Area.add_entity
Area_add_entity(r) ==
    LET e  == heap[r]
        gi == GridInsert(grid, entity_positions, e)
    IN  /\ entities' = Put(entities, e.entity_id, r)
        /\ grid' = gi.grid
        /\ entity_positions' = gi.entity_positions
        /\ dirty_entities' = dirty_entities \cup {e.entity_id}
        /\ removed_absent' = removed_absent \ {e.entity_id}
        /\ UNCHANGED <<heap, removed_entities, player_controller,
                       removed_pending, ever_removed, last_sent>>

\* a slip: the entry is not deleted from the map
MapAfterRemove_keeps_entry(ents, id) == ents

\* Area.remove_entity, lines 61-65: the entity map afterwards
MapAfterRemove(ents, id) == Del(ents, id)

\* a slip: the id is recorded as removed whether it was in the map or not
RemovedAfterRemove_always(removed, ents, id) == removed \cup {id}

\* a slip: the removed id is not recorded
RemovedAfterRemove_never(removed, ents, id) == removed

\* Area.remove_entity, lines 61 and 65: removed_entities afterwards
RemovedAfterRemove(removed, ents, id) ==
    IF id \in DOMAIN ents THEN removed \cup {id} ELSE removed

\* Area.remove_entity
Area_remove_entity(id) ==
    IF id \in DOMAIN entities
    THEN LET gr == GridRemove(grid, entity_positions, heap[entities[id]])
         IN  /\ grid' = gr.grid
             /\ entity_positions' = gr.entity_positions
             /\ entities' = MapAfterRemove(entities, id)
             /\ removed_entities' = RemovedAfterRemove(removed_entities, entities, id)
             /\ removed_pending' = removed_pending \cup {id}
             /\ ever_removed' = ever_removed \cup {id}
             /\ removed_absent' = removed_absent \cup {id}
             /\ UNCHANGED <<heap, dirty_entities, player_controller, last_sent>>
    ELSE /\ removed_entities' = RemovedAfterRemove(removed_entities, entities, id)
         /\ UNCHANGED <<heap, entities, dirty_entities, player_controller, grid,
                        entity_positions, area_ghost>>

\* Area.process_player_action raises when execute_action does: a payload
\* that is no mapping has no .get (player.py line 141)
PlayerActionRaises(a) == player_controller /\ ~a.mapping

\* a slip: no controlled entity is marked
MarkedDirty_none(h, objs, ents) == {}

\* process_player_action, lines 72-74: the ids it adds to dirty_entities
MarkedDirty(h, objs, ents) ==
    {h[r].entity_id : r \in {q \in Range(objs) : h[q].entity_id \in DOMAIN ents}}

\* Area.process_player_action, when it does not raise
Area_process_player_action(a) ==
    /\ IF player_controller
       THEN /\ heap' = ExecuteAction(heap, controlled_entity_objs,
                                     active_entity_index, a)
            /\ dirty_entities' = dirty_entities \cup
                   MarkedDirty(heap, controlled_entity_objs, entities)
       ELSE UNCHANGED <<heap, dirty_entities>>
    /\ UNCHANGED <<entities, removed_entities, player_controller, grid,
                   entity_positions, area_ghost>>

\* Area.process_party_command raises on a payload that is no mapping (line 78)
PartyCommandRaises(c) == ~c.mapping

\* a slip: the member is not marked
DirtyAfterCommand_unmarked(dirty, id) == dirty

\* process_party_command, line 82
DirtyAfterCommand(dirty, id) == dirty \cup {id}

\* Area.process_party_command, when it does not raise
Area_process_party_command(c) ==
    /\ LET member_id == Get(c, "member_id", "None") IN
       IF member_id \in DOMAIN entities
       THEN /\ heap' = [heap EXCEPT ![entities[member_id]] = ReceiveCommand(@, c)]
            /\ dirty_entities' = DirtyAfterCommand(dirty_entities, member_id)
       ELSE UNCHANGED <<heap, dirty_entities>>
    /\ UNCHANGED <<entities, removed_entities, player_controller, grid,
                   entity_positions, area_ghost>>

InBounds(e) == /\ -MaxPos <= e.x /\ e.x <= MaxPos
               /\ -MaxPos <= e.y /\ e.y <= MaxPos

\* the objects the entity map holds
Mapped == {entities[id] : id \in DOMAIN entities}

\* a slip: the dirty flags are reset without the ids being recorded
DirtyAfterUpdate_kept(dirty, ents, h) == dirty

\* Area.update, lines 88-89: dirty_entities afterwards
DirtyAfterUpdate(dirty, ents, h) ==
    dirty \cup {id \in DOMAIN ents : EntityUpdate(h[ents[id]]).is_dirty}

\* Area.update; not taken when it would move an entity out of the model's range
Area_update ==
    /\ \A r \in Mapped : InBounds(EntityUpdate(heap[r]))
    /\ heap' = [r \in DOMAIN heap |->
                   IF r \in Mapped
                   THEN [EntityUpdate(heap[r]) EXCEPT !.is_dirty = FALSE]
                   ELSE heap[r]]
    /\ dirty_entities' = DirtyAfterUpdate(dirty_entities, entities, heap)
    /\ UNCHANGED <<entities, removed_entities, player_controller, grid,
                   entity_positions, area_ghost>>

\* a slip: the dirty set is not cleared
StateDelta_keeps_dirty(ents, dirty, removed, h) ==
    IF dirty = {} /\ removed = {}
    THEN [delta |-> EmptyDelta, dirty |-> dirty, removed |-> removed]
    ELSE [delta |-> [nonempty |-> TRUE,
                     entities |-> [id \in dirty \cap DOMAIN ents |->
                                      Serialize(h[ents[id]])],
                     removed |-> ListOf(removed)],
          dirty |-> dirty, removed |-> {}]

\* a slip: the removed set is not cleared
StateDelta_keeps_removed(ents, dirty, removed, h) ==
    IF dirty = {} /\ removed = {}
    THEN [delta |-> EmptyDelta, dirty |-> dirty, removed |-> removed]
    ELSE [delta |-> [nonempty |-> TRUE,
                     entities |-> [id \in dirty \cap DOMAIN ents |->
                                      Serialize(h[ents[id]])],
                     removed |-> ListOf(removed)],
          dirty |-> {}, removed |-> removed]

\* Area.get_state_delta: what it returns and the two sets afterwards
StateDelta(ents, dirty, removed, h) ==
    IF dirty = {} /\ removed = {}
    THEN [delta |-> EmptyDelta, dirty |-> dirty, removed |-> removed]
    ELSE [delta |-> [nonempty |-> TRUE,
                     entities |-> [id \in dirty \cap DOMAIN ents |->
                                      Serialize(h[ents[id]])],
                     removed |-> ListOf(removed)],
          dirty |-> {}, removed |-> {}]

\* Area.get_state_delta
Area_get_state_delta ==
    LET sd == StateDelta(entities, dirty_entities, removed_entities, heap)
    IN  /\ last_delta' = sd.delta
        /\ was_pending' = removed_pending
        /\ dirty_entities' = sd.dirty
        /\ removed_entities' = sd.removed
        /\ removed_pending' = IF sd.delta.nonempty THEN {} ELSE removed_pending
        /\ UNCHANGED <<heap, entities, player_controller, grid, entity_positions,
                       ever_removed, removed_absent>>

RECURSIVE AddMissing(_, _, _)
\* Area.load_player_controller, lines 39-41, over the rest of the list:
\* m = [entities, grid, entity_positions, dirty] so far
AddMissing(m, objs, h) ==
    IF objs = <<>> THEN m
    ELSE LET e  == h[Head(objs)]
             gi == GridInsert(m.grid, m.entity_positions, e)
         IN  AddMissing(IF e.entity_id \in DOMAIN m.entities THEN m
                        ELSE [entities |-> Put(m.entities, e.entity_id, Head(objs)),
                              grid |-> gi.grid,
                              entity_positions |-> gi.entity_positions,
                              dirty |-> m.dirty \cup {e.entity_id}],
                        Tail(objs), h)

\* Area.load_player_controller
Area_load_player_controller ==
    LET m == AddMissing([entities |-> entities, grid |-> grid,
                         entity_positions |-> entity_positions,
                         dirty |-> dirty_entities],
                        controlled_entity_objs, heap)
    IN  /\ player_controller' = TRUE
        /\ entities' = m.entities
        /\ grid' = m.grid
        /\ entity_positions' = m.entity_positions
        /\ dirty_entities' = m.dirty
        /\ removed_absent' = removed_absent \ DOMAIN m.entities
        /\ UNCHANGED <<heap, removed_entities, removed_pending,
                       ever_removed, last_sent>>

----------------------------------------------------------------------------
(* The Area and the controller called directly, one call at a time *)

AddEntity(r) ==
    /\ Area_add_entity(r)
    /\ Step("add_entity", "main", "none")
    /\ UNCHANGED <<player_vars, loop_vars, ctl_vars, loop_ghost>>
    /\ Quiet

RemoveEntity(id) ==
    /\ Area_remove_entity(id)
    /\ Step("remove_entity", "main",
            IF id \in DOMAIN entities THEN "removed" ELSE "absent")
    /\ UNCHANGED <<player_vars, loop_vars, ctl_vars, loop_ghost>>
    /\ Quiet

ProcessPlayerAction(a) ==
    /\ IF PlayerActionRaises(a)
       THEN /\ StepOn("process_player_action", "main", "raise", a)
            /\ UNCHANGED <<heap, area_vars, area_ghost>>
       ELSE /\ StepOn("process_player_action", "main", "none", a)
            /\ Area_process_player_action(a)
    /\ UNCHANGED <<player_vars, loop_vars, ctl_vars, loop_ghost>>
    /\ Quiet

ProcessPartyCommand(c) ==
    /\ IF PartyCommandRaises(c)
       THEN /\ StepOn("process_party_command", "main", "raise", c)
            /\ UNCHANGED <<heap, area_vars, area_ghost>>
       ELSE /\ StepOn("process_party_command", "main", "none", c)
            /\ Area_process_party_command(c)
    /\ UNCHANGED <<player_vars, loop_vars, ctl_vars, loop_ghost>>
    /\ Quiet

Update ==
    /\ Area_update
    /\ Step("update", "main", "none")
    /\ UNCHANGED <<player_vars, loop_vars, ctl_vars, loop_ghost>>
    /\ Quiet

GetStateDelta ==
    /\ Area_get_state_delta
    /\ UNCHANGED last_sent
    /\ Step("get_state_delta", "main",
            IF last_delta'.nonempty THEN "delta" ELSE "empty")
    /\ emitted' = NotSent
    /\ UNCHANGED <<player_vars, loop_vars, ctl_vars, loop_ghost>>

LoadPlayerController ==
    /\ Area_load_player_controller
    /\ Step("load_player_controller", "main", "none")
    /\ UNCHANGED <<player_vars, loop_vars, ctl_vars, loop_ghost>>
    /\ Quiet

\* the payloads the Area is exercised with
AreaActions == { Action("move", 0, 1, "", FALSE), BadPayload }

AreaCommands == { Command("e2", "move_to"), BadPayload }

\* the loop threads that can be alive at a time: two, the fewest that show
\* one loop running beside another
Threads == {1, 2}

\* no entry in hand; the intake caller outside queue_*
NoItem == [seq |-> 0]

\* no state_update sent
NoTick == -1

Idle == [pc |-> "idle"]

\* the objects given to the Area and to the controller
AreaRefs == {1, 2}

ControlRefs == {1}

\* the state after GameLoop(socketio), Area() and PlayerCharacter()
InitEngine ==
    /\ entities = EmptyMap
    /\ dirty_entities = {}
    /\ removed_entities = {}
    /\ player_controller = FALSE
    /\ grid = EmptyMap
    /\ entity_positions = EmptyMap
    /\ controlled_entity_ids = <<>>
    /\ controlled_entity_objs = <<>>
    /\ active_entity_index = 0
    /\ controlled_entity_history = <<>>
    /\ entities_controlled = 0
    /\ running = FALSE
    /\ paused = FALSE
    /\ tick_count = 0
    /\ player_action_queue = <<>>
    /\ party_command_queue = <<>>
    /\ current_area = FALSE
    /\ tick_age = 0
    /\ current_thread = 0
    /\ pc = [t \in Threads |-> "none"]
    /\ item = [t \in Threads |-> NoItem]
    /\ saw_paused = [t \in Threads |-> FALSE]
    /\ caller = Idle
    /\ last_delta = EmptyDelta
    /\ emitted = NotSent
    /\ step = [kind |-> "init", actor |-> "main", ret |-> "none"]
    /\ delta_run = [n |-> 0, first |-> "none"]
    /\ next_seq = 1
    /\ handed = [q \in {"player_action", "party_command"} |-> 0]
    /\ removed_pending = {}
    /\ was_pending = {}
    /\ ever_removed = {}
    /\ removed_absent = {}
    /\ last_sent = EmptyMap
    /\ stop_idle = [t \in Threads |-> FALSE]
    /\ sent_tick = [t \in Threads |-> NoTick]
    /\ moved = [t \in Threads |-> FALSE]

\* the same, with the entity objects as their constructors leave them
InitObjects == heap = Objects /\ InitEngine

InitArea == InitObjects

NextArea ==
    \/ \E r \in AreaRefs : AddEntity(r)
    \/ \E id \in Ids \cup {"ghost"} : RemoveEntity(id)
    \/ \E a \in AreaActions : ProcessPlayerAction(a)
    \/ \E c \in AreaCommands : ProcessPartyCommand(c)
    \/ Update
    \/ GetStateDelta
    \/ LoadPlayerController
    \/ \E r \in ControlRefs : AddControlledEntity(r)

SpecArea == InitArea /\ [][NextArea]_vars

----------------------------------------------------------------------------
(* The controller called directly, with every entity object there is (two  *)
(* of them carry the same id)                                              *)

\* the indexes and directions the callers pass
Indexes == -1 .. 2

Directions == {-1, 1}

InitPlayer == InitObjects

NextPlayer ==
    \/ \E r \in Refs : AddControlledEntity(r)
    \/ \E r \in Refs : RemoveControlledEntity(r)
    \/ \E i \in Indexes : SetActiveEntityByIndex(i)
    \/ \E id \in Ids \cup {"ghost"} : SetActiveEntityById(id)
    \/ \E d \in Directions : CycleActiveEntity(d)

SpecPlayer == InitPlayer /\ [][NextPlayer]_vars

----------------------------------------------------------------------------
(* GameLoop.  A loop thread is at one of:                                   *)
(*   "none"       no thread                                                 *)
(*   "spawned"    started, before the first statement of run()              *)
(*   "loop_head"  at `while self.running` (line 70; asleep before it)       *)
(*   "pause_loop" at `while self.paused` (lines 72-73)                      *)
(*   "drain_pa"   at the loop test of process_player_actions (line 49)      *)
(*   "hand_pa"    an action popped, before Area.process_player_action       *)
(*   "drain_pc", "hand_pc"   the same for party commands                    *)
(*   "update"     before Area.update (line 83)                              *)
(*   "delta"      before get_state_delta and emit (lines 86-90)             *)
(*   "incr"       before tick_count += 1 (line 92)                          *)
(*   "done"       run() returned;  "crashed"  run() ended by an exception   *)
(* tick_age is time.time() - self.tick_start in units of the model's clock, *)
(* kept up to TickUnits + 1 (later than the budget).                        *)

InTick == {"drain_pa", "hand_pa", "drain_pc", "hand_pc", "update", "delta", "incr"}

Alive(t) == pc[t] \notin {"none", "done", "crashed"}

\* GameLoop.current_area = area, done by whoever builds the game
AttachArea ==
    /\ ~current_area
    /\ current_area' = TRUE
    /\ OtherStep
    /\ UNCHANGED <<heap, area_vars, player_vars, running, paused, tick_count,
                   player_action_queue, party_command_queue, tick_age,
                   current_thread, ctl_vars, area_ghost, loop_ghost>>
    /\ Quiet

\* GameLoop.start, lines 107-110: the flags, the counter and the queues it sets
StartResets ==
    /\ running' = TRUE
    /\ tick_count' = 0
    /\ player_action_queue' = <<>>
    /\ party_command_queue' = <<>>
    /\ UNCHANGED paused

\* GameLoop.start; the new thread takes the first free place among `slots`
Start(slots) ==
    /\ IF running /\ current_thread # 0 /\ Alive(current_thread)
       THEN /\ Step("start", "main", "running")
            /\ UNCHANGED <<loop_vars, pc, stop_idle>>
       ELSE \E t \in slots :
            /\ ~Alive(t)
            /\ \A u \in slots : ~Alive(u) => t <= u
            /\ StartResets
            /\ pc' = [pc EXCEPT ![t] = "spawned"]
            /\ current_thread' = t
            /\ stop_idle' = [u \in Threads |-> FALSE]
            /\ Step("start", "main", IF running THEN "respawned" ELSE "spawned")
            /\ UNCHANGED <<current_area, tick_age>>
    /\ UNCHANGED <<heap, area_vars, player_vars, item, saw_paused, caller,
                   area_ghost, next_seq, handed, sent_tick, moved>>
    /\ Quiet

\* thread t is alive with no tick in flight: it has not reached the test of
\* line 70 since its last tick, or it waits in the pause loop of lines 72-73
BetweenTicks(t) ==
    \/ pc[t] \in {"spawned", "loop_head"}
    \/ pc[t] = "pause_loop" /\ paused

\* GameLoop.stop; stop_idle[t]: stop() found thread t between ticks, and
\* start() was not called since
Stop ==
    /\ running' = FALSE
    /\ stop_idle' = [t \in Threads |-> BetweenTicks(t)]
    /\ OtherStep
    /\ UNCHANGED <<heap, area_vars, player_vars, paused, tick_count,
                   player_action_queue, party_command_queue, current_area,
                   tick_age, current_thread, ctl_vars, area_ghost, next_seq,
                   handed, sent_tick, moved>>
    /\ Quiet

\* GameLoop.pause
Pause ==
    /\ paused' = TRUE
    /\ OtherStep
    /\ UNCHANGED <<heap, area_vars, player_vars, running, tick_count,
                   player_action_queue, party_command_queue, current_area,
                   tick_age, current_thread, ctl_vars, area_ghost, loop_ghost>>
    /\ Quiet

\* GameLoop.resume
Resume ==
    /\ paused' = FALSE
    /\ saw_paused' = [t \in Threads |-> FALSE]
    /\ OtherStep
    /\ UNCHANGED <<heap, area_vars, player_vars, running, tick_count,
                   player_action_queue, party_command_queue, current_area,
                   tick_age, current_thread, pc, item, caller, area_ghost,
                   loop_ghost>>
    /\ Quiet

Draining == {"drain_pa", "hand_pa", "drain_pc", "hand_pc"}

\* the clock is followed while a drain, which reads it, is on
ClockAfterDrain ==
    tick_age' = IF \E t \in Threads : pc'[t] \in Draining THEN tick_age ELSE 0

\* the clock moves on
TimePasses ==
    /\ \E t \in Threads : pc[t] \in Draining
    /\ tick_age <= TickUnits
    /\ tick_age' = tick_age + 1
    /\ OtherStep
    /\ UNCHANGED <<heap, area_vars, player_vars, running, paused, tick_count,
                   player_action_queue, party_command_queue, current_area,
                   current_thread, ctl_vars, area_ghost, loop_ghost>>
    /\ Quiet

----------------------------------------------------------------------------
(* Intake: queue_player_action / queue_party_command, called by a socket   *)
(* handler.  `kind` is the queue, "player_action" or "party_command".      *)

QueueOf(kind) == IF kind = "player_action" THEN player_action_queue
                 ELSE party_command_queue

\* queue_*, line 33 / 40: the call enters its loop or returns at once
QueueCall(kind, payload) ==
    /\ caller.pc = "idle"
    /\ IF ~current_area
       THEN /\ caller' = Idle
            /\ OtherStep
       ELSE /\ caller' = [pc |-> "loop", kind |-> kind, payload |-> payload,
                          appended |-> 0]
            /\ OtherStep
    /\ UNCHANGED <<heap, area_vars, player_vars, loop_vars, pc, item,
                   saw_paused, area_ghost, loop_ghost>>
    /\ Quiet

\* queue_*, line 35 / 42: the test of the loop around the append
KeepsAppending == running /\ ~paused

\* queue_*, lines 35-36 / 42-43: one test of the loop, and the append
QueueLoop ==
    /\ caller.pc = "loop"
    /\ IF KeepsAppending
       THEN /\ next_seq <= MaxEnq
            /\ LET entry == [payload |-> caller.payload, seq |-> next_seq] IN
               IF caller.kind = "player_action"
               THEN /\ player_action_queue' = Append(player_action_queue, entry)
                    /\ UNCHANGED party_command_queue
               ELSE /\ party_command_queue' = Append(party_command_queue, entry)
                    /\ UNCHANGED player_action_queue
            /\ next_seq' = next_seq + 1
            /\ caller' = [caller EXCEPT !.appended = @ + 1]
            /\ OtherStep
       ELSE /\ caller' = Idle
            /\ OtherStep
            /\ UNCHANGED <<player_action_queue, party_command_queue, next_seq>>
    /\ UNCHANGED <<heap, area_vars, player_vars, running, paused, tick_count,
                   current_area, tick_age, current_thread, pc, item, saw_paused,
                   area_ghost, handed, stop_idle, sent_tick,
                   moved>>
    /\ Quiet

----------------------------------------------------------------------------
(* GameLoop.run, one loop thread t *)

AreaSame == UNCHANGED <<heap, area_vars, area_ghost>>

\* run(), line 67
RunBegin(t) ==
    /\ pc[t] = "spawned"
    /\ running' = TRUE
    /\ pc' = [pc EXCEPT ![t] = "loop_head"]
    /\ OtherStep
    /\ AreaSame
    /\ UNCHANGED <<player_vars, paused, tick_count, player_action_queue,
                   party_command_queue, current_area, tick_age, current_thread,
                   item, saw_paused, caller, loop_ghost>>
    /\ Quiet

\* run(), line 70: `while self.running`
LoopHead(t) ==
    /\ pc[t] = "loop_head"
    /\ pc' = [pc EXCEPT ![t] = IF running THEN "pause_loop" ELSE "done"]
    /\ OtherStep
    /\ AreaSame
    /\ UNCHANGED <<player_vars, loop_vars, item, saw_paused, caller, loop_ghost>>
    /\ Quiet

\* a slip: the pause is not waited for
StillPaused_never == FALSE

\* run(), line 72: the test of `while self.paused`
StillPaused == paused

\* run(), lines 72-76: wait while paused, then record tick_start.
\* saw_paused[t]: the test found paused set, and resume() was not called since.
PauseLoop(t) ==
    /\ pc[t] = "pause_loop"
    /\ saw_paused' = [saw_paused EXCEPT ![t] = paused]
    /\ IF StillPaused
       THEN /\ OtherStep
            /\ UNCHANGED <<pc, tick_age>>
       ELSE /\ pc' = [pc EXCEPT ![t] = "drain_pa"]
            /\ tick_age' = 0
            /\ OtherStep
    /\ AreaSame
    /\ UNCHANGED <<player_vars, running, paused, tick_count, player_action_queue,
                   party_command_queue, current_area, current_thread, item,
                   caller, loop_ghost>>
    /\ Quiet

DrainPc(kind) == IF kind = "player_action" THEN "drain_pa" ELSE "drain_pc"

HandPc(kind) == IF kind = "player_action" THEN "hand_pa" ELSE "hand_pc"

AfterDrain(kind) == IF kind = "player_action" THEN "drain_pc" ELSE "update"

\* a slip: the pause flag is not looked at
DrainGoesOn_ignores_pause(q) == q # <<>> /\ running

\* a slip: the running flag is not looked at
DrainGoesOn_ignores_running(q) == q # <<>> /\ ~paused

\* process_*, line 49 / 59: the test of the drain loop
DrainGoesOn(q) == q # <<>> /\ running /\ ~paused

\* a slip: no budget
BudgetUsedUp_never == FALSE

\* process_*, line 50 / 60: self.tick_start + TICK_DURATION < time.time()
BudgetUsedUp == tick_age > TickUnits

\* process_player_actions / process_party_commands, lines 47-52 / 57-62:
\* one test of the drain loop; it ends the drain or pops the next entry
Drain(t, kind) ==
    /\ pc[t] = DrainPc(kind)
    /\ LET q == QueueOf(kind)
           why == IF ~current_area THEN "no_area"
                  ELSE IF ~DrainGoesOn(q) THEN "test"
                  ELSE IF BudgetUsedUp THEN "budget"
                  ELSE "pop"
           q2 == IF why = "pop" THEN Tail(q) ELSE q
       IN  /\ IF kind = "player_action"
              THEN /\ player_action_queue' = q2
                   /\ UNCHANGED party_command_queue
              ELSE /\ party_command_queue' = q2
                   /\ UNCHANGED player_action_queue
           /\ IF why = "pop"
              THEN /\ item' = [item EXCEPT ![t] = Head(q)]
                   /\ pc' = [pc EXCEPT ![t] = HandPc(kind)]
                   /\ Step("pop", t, kind)
              ELSE /\ pc' = [pc EXCEPT ![t] = AfterDrain(kind)]
                   /\ Step("drain_end", t, why)
                   /\ UNCHANGED item
    /\ AreaSame
    /\ ClockAfterDrain
    /\ UNCHANGED <<player_vars, running, paused, tick_count, current_area,
                   current_thread, saw_paused, caller, loop_ghost>>
    /\ Quiet

Raises(kind, payload) ==
    IF kind = "player_action" THEN PlayerActionRaises(payload)
    ELSE PartyCommandRaises(payload)

\* process_*, line 53 / 63: the popped entry is handed to the Area; an
\* exception leaves process_* and run(), which catch nothing.
\* moved[t]: thread t has handed over a move action in the tick it is in
Hand(t, kind) ==
    /\ pc[t] = HandPc(kind)
    /\ handed' = [handed EXCEPT ![kind] = item[t].seq]
    /\ item' = [item EXCEPT ![t] = NoItem]
    /\ IF Raises(kind, item[t].payload)
       THEN /\ pc' = [pc EXCEPT ![t] = "crashed"]
            /\ Step("hand", t, "raise")
            /\ AreaSame
            /\ UNCHANGED moved
       ELSE /\ pc' = [pc EXCEPT ![t] = DrainPc(kind)]
            /\ Step("hand", t, "none")
            /\ IF kind = "player_action"
               THEN Area_process_player_action(item[t].payload)
               ELSE Area_process_party_command(item[t].payload)
            /\ moved' = [moved EXCEPT ![t] =
                             @ \/ (kind = "player_action"
                                      /\ item[t].payload.mapping
                                      /\ Get(item[t].payload, "type", "") = "move")]
    /\ ClockAfterDrain
    /\ UNCHANGED <<player_vars, running, paused, tick_count, player_action_queue,
                   party_command_queue, current_area, current_thread,
                   saw_paused, caller, next_seq, stop_idle, sent_tick>>
    /\ Quiet

\* run(), line 83: self.current_area.update(TICK_DURATION); None has no update
LoopUpdate(t) ==
    /\ pc[t] = "update"
    /\ IF current_area
       THEN /\ Area_update
            /\ pc' = [pc EXCEPT ![t] = "delta"]
            /\ OtherStep
       ELSE /\ AreaSame
            /\ pc' = [pc EXCEPT ![t] = "crashed"]
            /\ Step("update", t, "raise")
    /\ UNCHANGED <<player_vars, loop_vars, item, saw_paused, caller, loop_ghost>>
    /\ Quiet

\* run(), lines 86-90: get_state_delta, and the emit of a delta that is not {}.
\* sent_tick[t]: the tick number of the state_update thread t has sent in the
\* tick it is in (NoTick: none)
LoopDelta(t) ==
    /\ pc[t] = "delta"
    /\ Area_get_state_delta
    /\ UNCHANGED last_sent
    /\ emitted' = IF last_delta'.nonempty
                  THEN [sent |-> TRUE, tick |-> tick_count]
                  ELSE NotSent
    /\ pc' = [pc EXCEPT ![t] = "incr"]
    /\ sent_tick' = [sent_tick EXCEPT ![t] = IF last_delta'.nonempty
                                              THEN tick_count ELSE NoTick]
    /\ Step("get_state_delta", t, IF last_delta'.nonempty THEN "delta" ELSE "empty")
    /\ UNCHANGED <<player_vars, loop_vars, item, saw_paused, caller, next_seq,
                   handed, stop_idle, moved>>

\* run(), lines 92-98: tick_count += 1 and the sleep to the next tick
LoopIncr(t) ==
    /\ pc[t] = "incr"
    /\ tick_count < MaxTicks
    /\ tick_count' = tick_count + 1
    /\ pc' = [pc EXCEPT ![t] = "loop_head"]
    /\ OtherStep
    /\ AreaSame
    /\ UNCHANGED <<player_vars, running, paused, player_action_queue,
                   party_command_queue, current_area, tick_age, current_thread,
                   item, saw_paused, caller, next_seq, handed, stop_idle>>
    /\ sent_tick' = [sent_tick EXCEPT ![t] = NoTick]
    /\ moved' = [moved EXCEPT ![t] = FALSE]
    /\ Quiet

----------------------------------------------------------------------------
(* The game loop with its callers *)

\* what the clients send
LoopActions == { Action("attack", 0, 0, "", FALSE), BadPayload }

LoopCommands == { Command("e2", "move_to") }

\* An Area holding e1 and e2, with a controller of e1 loaded: the state after
\* add_entity of both, add_controlled_entity(e1) and load_player_controller;
\* `attached`: the Area has been given to the GameLoop
InitGame(attached) ==
    /\ heap = Objects
    /\ entities = [id \in {"e1", "e2"} |-> IF id = "e1" THEN 1 ELSE 2]
    /\ dirty_entities = {"e1", "e2"}
    /\ removed_entities = {}
    /\ player_controller = TRUE
    /\ grid = [c \in {<<0, 0>>} |-> {"e1", "e2"}]
    /\ entity_positions = [id \in {"e1", "e2"} |-> <<0, 0>>]
    /\ controlled_entity_ids = <<"e1">>
    /\ controlled_entity_objs = <<1>>
    /\ active_entity_index = 0
    /\ controlled_entity_history = <<"e1">>
    /\ entities_controlled = 1
    /\ running = FALSE
    /\ paused = FALSE
    /\ tick_count = 0
    /\ player_action_queue = <<>>
    /\ party_command_queue = <<>>
    /\ current_area = attached
    /\ tick_age = 0
    /\ current_thread = 0
    /\ pc = [t \in Threads |-> "none"]
    /\ item = [t \in Threads |-> NoItem]
    /\ saw_paused = [t \in Threads |-> FALSE]
    /\ caller = Idle
    /\ last_delta = EmptyDelta
    /\ emitted = NotSent
    /\ step = [kind |-> "init", actor |-> "main", ret |-> "none"]
    /\ delta_run = [n |-> 0, first |-> "none"]
    /\ next_seq = 1
    /\ handed = [q \in {"player_action", "party_command"} |-> 0]
    /\ removed_pending = {}
    /\ was_pending = {}
    /\ ever_removed = {}
    /\ removed_absent = {}
    /\ last_sent = EmptyMap
    /\ stop_idle = [t \in Threads |-> FALSE]
    /\ sent_tick = [t \in Threads |-> NoTick]
    /\ moved = [t \in Threads |-> FALSE]

InitLoop == InitGame(FALSE)

\* one loop thread at a time: start() while the last loop is still alive is
\* left to SpecTwoLoops
OneLoop == {1}

NextLoop ==
    \/ AttachArea
    \/ Start(OneLoop)
    \/ Stop
    \/ Pause
    \/ Resume
    \/ TimePasses
    \/ \E a \in LoopActions : QueueCall("player_action", a)
    \/ \E c \in LoopCommands : QueueCall("party_command", c)
    \/ QueueLoop
    \/ \E t \in OneLoop :
          \/ RunBegin(t)
          \/ LoopHead(t)
          \/ PauseLoop(t)
          \/ Drain(t, "player_action")
          \/ Hand(t, "player_action")
          \/ Drain(t, "party_command")
          \/ Hand(t, "party_command")
          \/ LoopUpdate(t)
          \/ LoopDelta(t)
          \/ LoopIncr(t)

SpecLoop == InitLoop /\ [][NextLoop]_vars
----------------------------------------------------------------------------
(* start() after stop() while the last loop thread is still alive: start() *)
(* looks at current_thread only when running is set (lines 102-105), so a  *)
(* second thread runs run() next to the first.                             *)

TwoLoopActions == { Action("attack", 0, 0, "", FALSE) }

NextTwoLoops ==
    \/ AttachArea
    \/ Start(Threads)
    \/ Stop
    \/ \E a \in TwoLoopActions : QueueCall("player_action", a)
    \/ QueueLoop
    \/ \E t \in Threads :
          \/ RunBegin(t)
          \/ LoopHead(t)
          \/ PauseLoop(t)
          \/ Drain(t, "player_action")
          \/ Hand(t, "player_action")
          \/ Drain(t, "party_command")
          \/ LoopUpdate(t)
          \/ LoopDelta(t)
          \/ LoopIncr(t)

SpecTwoLoops == InitLoop /\ [][NextTwoLoops]_vars
----------------------------------------------------------------------------
(* Player actions, well-formed and not, handed to an Area that is built up  *)
(* with and without a controller                                           *)

PlayerActions ==
    { Action("move", 0, 1, "", FALSE),
      Action("move", 0, 1, "e2", FALSE),
      MoveNoDirection,
      NoType }

NextActions ==
    \/ \E r \in AreaRefs : AddEntity(r)
    \/ \E r \in ControlRefs : AddControlledEntity(r)
    \/ LoadPlayerController
    \/ \E a \in PlayerActions : ProcessPlayerAction(a)
    \/ Update

SpecActions == InitArea /\ [][NextActions]_vars

----------------------------------------------------------------------------
(* One loop thread and a client that sends move actions *)

MoveActions == { Action("move", 0, 1, "", FALSE) }

NextMove ==
    \/ AttachArea
    \/ Start(OneLoop)
    \/ Stop
    \/ Pause
    \/ Resume
    \/ TimePasses
    \/ \E a \in MoveActions : QueueCall("player_action", a)
    \/ QueueLoop
    \/ \E t \in OneLoop :
          \/ RunBegin(t)
          \/ LoopHead(t)
          \/ PauseLoop(t)
          \/ Drain(t, "player_action")
          \/ Hand(t, "player_action")
          \/ Drain(t, "party_command")
          \/ LoopUpdate(t)
          \/ LoopDelta(t)
          \/ LoopIncr(t)

SpecMove == InitLoop /\ [][NextMove]_vars

----------------------------------------------------------------------------
(* Entity.update called directly on entities at rest and in motion *)

\* delta_time, in units of 1 / TICK_RATE seconds
DeltaTimes == 0 .. 2

Velocities == {-BASE_SPEED, 0, BASE_SPEED}

\* the first entity as move actions and Area.update can have left it
Moved(e) ==
    {[e EXCEPT !.vx = vx, !.vy = vy, !.is_dirty = d,
               !.state = IF vx # 0 \/ vy # 0 THEN "moving" ELSE "idle",
               !.facing = Facing(e, vx, vy)] :
        vx \in Velocities, vy \in Velocities, d \in BOOLEAN}

InitEntity ==
    /\ heap \in {[Objects EXCEPT ![1] = e] : e \in Moved(Objects[1])}
    /\ InitEngine

\* entity.update(delta_time), for the object r
EntityUpdateCall(r, n) ==
    /\ InBounds(EntityUpdateBy(heap[r], n))
    /\ heap' = [heap EXCEPT ![r] = EntityUpdateBy(@, n)]
    /\ StepOn("entity_update", "main", "none",
              [r |-> r, n |-> n, before |-> heap[r]])
    /\ UNCHANGED <<area_vars, player_vars, loop_vars, ctl_vars, area_ghost,
                   loop_ghost>>
    /\ Quiet

NextEntity == \E r \in Refs, n \in DeltaTimes : EntityUpdateCall(r, n)

SpecEntity == InitEntity /\ [][NextEntity]_vars

----------------------------------------------------------------------------
(* The SpatialGrid of an Area whose entities move, with update and          *)
(* query_radius called on it                                               *)

GridActions == { Action("move", 0, 1, "", FALSE) }

\* the centres and radii asked for
QueryCentres == {0, 30}

QueryRadii == {0, 5, 40}

\* spatial_grid.update(entity), for the object r
GridUpdateCall(r) ==
    /\ LET gu == GridUpdate(grid, entity_positions, heap[r])
       IN  grid' = gu.grid /\ entity_positions' = gu.entity_positions
    /\ StepOn("grid_update", "main", "none", [r |-> r])
    /\ UNCHANGED <<heap, entities, dirty_entities, removed_entities,
                   player_controller, player_vars, loop_vars, ctl_vars,
                   area_ghost, loop_ghost>>
    /\ Quiet

\* spatial_grid.query_radius(x, y, radius, entities_dict)
QueryRadiusCall(x, y, radius, lookup) ==
    /\ StepOn("query_radius", "main", "none",
              [x |-> x, y |-> y, radius |-> radius, lookup |-> lookup,
               result |-> QueryRadius(grid, heap, x, y, radius, lookup)])
    /\ UNCHANGED <<heap, area_vars, player_vars, loop_vars, ctl_vars,
                   area_ghost, loop_ghost>>
    /\ Quiet

NextGrid ==
    \/ \E r \in AreaRefs : AddEntity(r)
    \/ \E id \in Ids : RemoveEntity(id)
    \/ \E r \in ControlRefs : AddControlledEntity(r)
    \/ LoadPlayerController
    \/ \E a \in GridActions : ProcessPlayerAction(a)
    \/ Update
    \/ \E r \in Refs : GridUpdateCall(r)
    \/ \E x \in QueryCentres, y \in QueryCentres, radius \in QueryRadii :
          \/ QueryRadiusCall(x, y, radius, Lookup(entities))
          \/ QueryRadiusCall(x, y, radius, NoLookup)

SpecGrid == InitArea /\ [][NextGrid]_vars

----------------------------------------------------------------------------
(* The controller saved to its file and loaded from it.  The document is   *)
(* the JSON object written: a map from the keys to the values.             *)

\* PlayerCharacter.__init__, line 25: the id of a player that was given none
DefaultPlayerId == "00000000-0000-0000-0000-000000000000"

\* the controller as it is
Player ==
    [player_id |-> DefaultPlayerId,
     controlled_entity_ids |-> controlled_entity_ids,
     active_entity_index |-> active_entity_index,
     controlled_entity_history |-> controlled_entity_history,
     player_stats |-> [entities_controlled |-> entities_controlled]]

\* PlayerCharacter.serialize: the ids are those of the controlled objects
PlayerSerialize(p, objs, h) ==
    [player_id |-> p.player_id,
     controlled_entity_ids |-> [i \in DOMAIN objs |-> h[objs[i]].entity_id],
     active_entity_index |-> p.active_entity_index,
     controlled_entities_history |-> p.controlled_entity_history,
     player_stats |-> p.player_stats]

\* PlayerCharacter.load_from_file, lines 268-283: the controller made of the
\* document
LoadFromFile(doc) ==
    [player_id |-> Get(doc, "player_id", "None"),
     controlled_entity_ids |-> Get(doc, "controlled_entity_ids", <<>>),
     active_entity_index |-> Get(doc, "active_entity_index", 0),
     controlled_entity_history |-> Get(doc, "controlled_entity_history", <<>>),
     player_stats |-> Get(doc, "player_stats", [entities_controlled |-> 0])]

\* save_to_file, then load_from_file of the file written
SaveAndLoad ==
    /\ LET doc == PlayerSerialize(Player, controlled_entity_objs, heap)
       IN  StepOn("load_from_file", "main", "none",
                  [saved |-> Player, loaded |-> LoadFromFile(doc)])
    /\ UNCHANGED <<heap, area_vars, player_vars, loop_vars, ctl_vars,
                   area_ghost, loop_ghost>>
    /\ Quiet

NextSave ==
    \/ \E r \in Refs : AddControlledEntity(r)
    \/ \E r \in Refs : RemoveControlledEntity(r)
    \/ \E d \in Directions : CycleActiveEntity(d)
    \/ SaveAndLoad

SpecSave == InitPlayer /\ [][NextSave]_vars

----------------------------------------------------------------------------
(* The loop followed without end: one loop thread, callers that keep        *)
(* sending, entries whose processing takes time.  The entries are not       *)
(* numbered and tick_count is followed up to MaxTicks, so that the states   *)
(* are finitely many.                                                       *)

\* longest queue explored here; the append waits while the queue is that long
MaxQueue == 2

FairActions == { Action("attack", 0, 0, "", FALSE) }

FairCommands == { Command("e2", "move_to") }

\* queue_*, lines 35-36 / 42-43, with entries that are not numbered
QueueLoopOn ==
    /\ caller.pc = "loop"
    /\ IF KeepsAppending
       THEN /\ Len(QueueOf(caller.kind)) < MaxQueue
            /\ LET entry == [payload |-> caller.payload, seq |-> 0] IN
               IF caller.kind = "player_action"
               THEN /\ player_action_queue' = Append(player_action_queue, entry)
                    /\ UNCHANGED party_command_queue
               ELSE /\ party_command_queue' = Append(party_command_queue, entry)
                    /\ UNCHANGED player_action_queue
            /\ caller' = [caller EXCEPT !.appended = 1]
       ELSE /\ caller' = Idle
            /\ UNCHANGED <<player_action_queue, party_command_queue>>
    /\ OtherStep
    /\ UNCHANGED <<heap, area_vars, player_vars, running, paused, tick_count,
                   current_area, tick_age, current_thread, pc, item, saw_paused,
                   area_ghost, loop_ghost>>
    /\ Quiet

\* run(), lines 92-98, with tick_count followed up to MaxTicks
LoopIncrOn(t) ==
    /\ pc[t] = "incr"
    /\ tick_count' = IF tick_count < MaxTicks THEN tick_count + 1 ELSE tick_count
    /\ pc' = [pc EXCEPT ![t] = "loop_head"]
    /\ OtherStep
    /\ AreaSame
    /\ UNCHANGED <<player_vars, running, paused, player_action_queue,
                   party_command_queue, current_area, tick_age, current_thread,
                   item, saw_paused, caller, next_seq, handed, stop_idle>>
    /\ sent_tick' = [sent_tick EXCEPT ![t] = NoTick]
    /\ moved' = [moved EXCEPT ![t] = FALSE]
    /\ Quiet

\* the clock moves on while an entry is being handed to the Area
HandTakesTime ==
    /\ \E t \in Threads : pc[t] \in {"hand_pa", "hand_pc"}
    /\ TimePasses

\* a step of the loop thread t
ThreadStep(t) ==
    \/ RunBegin(t)
    \/ LoopHead(t)
    \/ PauseLoop(t)
    \/ Drain(t, "player_action")
    \/ Hand(t, "player_action")
    \/ Drain(t, "party_command")
    \/ Hand(t, "party_command")
    \/ LoopUpdate(t)
    \/ LoopDelta(t)
    \/ LoopIncrOn(t)

InitFair == InitGame(TRUE)

NextFair ==
    \/ Start(OneLoop)
    \/ Pause
    \/ Resume
    \/ HandTakesTime
    \/ \E a \in FairActions : QueueCall("player_action", a)
    \/ \E c \in FairCommands : QueueCall("party_command", c)
    \/ QueueLoopOn
    \/ \E t \in OneLoop : ThreadStep(t)

\* the loop thread and the thread of the caller are scheduled again and
\* again, and handing entries over takes time again and again
SpecFair ==
    /\ InitFair
    /\ [][NextFair]_vars
    /\ \A t \in OneLoop : WF_vars(ThreadStep(t))
    /\ WF_vars(QueueLoopOn)
    /\ SF_vars(HandTakesTime)

----------------------------------------------------------------------------
(* Player actions for the active entity, for a named entity and for the    *)
(* whole party, handed to a controller of none, one or several entities    *)

TargetActions ==
    { Action("move", 0, 1, "", FALSE),
      Action("move", 1, 0, "e2", FALSE),
      Action("interact", 0, 0, "ghost", FALSE),
      Action("attack", 0, 0, "", TRUE) }

NextTargets ==
    \/ \E r \in Refs : AddControlledEntity(r)
    \/ \E d \in Directions : CycleActiveEntity(d)
    \/ LoadPlayerController
    \/ \E a \in TargetActions : ProcessPlayerAction(a)

SpecTargets == InitArea /\ [][NextTargets]_vars

----------------------------------------------------------------------------
(* Move actions in every direction for an entity with a walking-speed      *)
(* modifier                                                                *)

\* modifiers["walking_speed"]
WalkingSpeeds == {1, 2}

Steps == {-1, 0, 1}

SteerActions == { Action("move", dx, dy, "", FALSE) : dx \in Steps, dy \in Steps }

\* the first entity with the modifier its file gave it and its dirty flag
\* as the constructor or an Area.update left it
InitSteer ==
    /\ heap \in {[Objects EXCEPT ![1] = [@ EXCEPT !.walking_speed = m,
                                                  !.is_dirty = d]] :
                    m \in WalkingSpeeds, d \in BOOLEAN}
    /\ InitEngine

NextSteer ==
    \/ \E r \in ControlRefs : AddControlledEntity(r)
    \/ LoadPlayerController
    \/ \E a \in SteerActions : ProcessPlayerAction(a)

SpecSteer == InitSteer /\ [][NextSteer]_vars

----------------------------------------------------------------------------
(* Player actions between delta collections, for a controller whose        *)
(* entities are or are not in the Area's map                               *)

DirtyActions == TargetActions \cup {NoType}

NextDirty ==
    \/ \E r \in AreaRefs : AddEntity(r)
    \/ \E r \in Refs : AddControlledEntity(r)
    \/ LoadPlayerController
    \/ \E a \in DirtyActions : ProcessPlayerAction(a)
    \/ GetStateDelta

SpecDirty == InitArea /\ [][NextDirty]_vars

----------------------------------------------------------------------------
(* Party commands for a party member, for an entity that is none, for an   *)
(* id that is not in the map and without an id                             *)

PartyCommands ==
    { Command("e2", "hold_position"),
      Command("e2", "attack_target"),
      Command("e1", "follow"),
      Command("ghost", "follow"),
      NoMember }

NextCommands ==
    \/ \E r \in Refs : AddEntity(r)
    \/ \E id \in Ids : RemoveEntity(id)
    \/ \E c \in PartyCommands : ProcessPartyCommand(c)
    \/ GetStateDelta

SpecCommands == InitArea /\ [][NextCommands]_vars

(***************************************************************************)
(* The snapshots sent: Area.get_state_delta is followed with a record of   *)
(* the last snapshot each delta carried for each entity id, while          *)
(* entities are added, replaced, removed, steered, commanded and moved.    *)
(***************************************************************************)

\* the last snapshot sent for each id once the delta d has been returned
SentAfter(sent, d) ==
    [id \in DOMAIN sent \cup DOMAIN d.entities |->
        IF id \in DOMAIN d.entities THEN d.entities[id] ELSE sent[id]]

\* Area.get_state_delta called directly, its snapshots recorded
GetStateDeltaSeen ==
    /\ Area_get_state_delta
    /\ last_sent' = SentAfter(last_sent, last_delta')
    /\ Step("get_state_delta", "main",
            IF last_delta'.nonempty THEN "delta" ELSE "empty")
    /\ emitted' = NotSent
    /\ UNCHANGED <<player_vars, loop_vars, ctl_vars, loop_ghost>>

SentActions == { Action("move", 0, 1, "", FALSE) }

SentCommands == { Command("e2", "attack_target") }

NextSent ==
    \/ \E r \in Refs : AddEntity(r)
    \/ \E id \in Ids : RemoveEntity(id)
    \/ \E r \in ControlRefs : AddControlledEntity(r)
    \/ LoadPlayerController
    \/ \E a \in SentActions : ProcessPlayerAction(a)
    \/ \E c \in SentCommands : ProcessPartyCommand(c)
    \/ Update
    \/ GetStateDeltaSeen

SpecSent == InitArea /\ [][NextSent]_vars

(***************************************************************************)
(* The bootstrap read: Area.get_full_state between the operations that    *)
(* fill the map, change entities and collect deltas.                      *)
(***************************************************************************)

\* backend/config.py
DEF_AREA_WIDTH == 1000
DEF_AREA_HEIGHT == 1000

\* a slip: only the entities whose dirty flag is set are serialized
FullState_dirty_only(ents, h) ==
    [entities |-> [id \in {i \in DOMAIN ents : h[ents[i]].is_dirty} |->
                      Serialize(h[ents[id]])],
     world |-> [width |-> DEF_AREA_WIDTH, height |-> DEF_AREA_HEIGHT]]

\* Area.get_full_state: the state it returns
FullState(ents, h) ==
    [entities |-> [id \in DOMAIN ents |-> Serialize(h[ents[id]])],
     world |-> [width |-> DEF_AREA_WIDTH, height |-> DEF_AREA_HEIGHT]]

\* Area.get_full_state called directly; the step records what it returned
GetFullState ==
    /\ StepOn("get_full_state", "main", "state", FullState(entities, heap))
    /\ UNCHANGED <<heap, area_vars, area_ghost>>
    /\ UNCHANGED <<player_vars, loop_vars, ctl_vars, loop_ghost>>
    /\ Quiet

FullCommands == { Command("e2", "attack_target") }

NextFull ==
    \/ \E r \in Refs : AddEntity(r)
    \/ \E id \in Ids : RemoveEntity(id)
    \/ \E c \in FullCommands : ProcessPartyCommand(c)
    \/ Update
    \/ GetStateDelta
    \/ GetFullState

SpecFull == InitArea /\ [][NextFull]_vars

(***************************************************************************)
(* A party of three: the controller's list operations over three entities *)
(* with three different ids, the fewest among which an entity can be      *)
(* removed from before the active one while another comes after it.       *)
(***************************************************************************)

Party == << NewEntity("e1", "Entity", 30, 30),
            NewEntity("e2", "PartyMember", 0, 0),
            NewEntity("e3", "PartyMember", 0, 0) >>

InitParty == heap = Party /\ InitEngine

NextParty ==
    \/ \E r \in DOMAIN Party : AddControlledEntity(r)
    \/ \E r \in DOMAIN Party : RemoveControlledEntity(r)
    \/ \E i \in Indexes : SetActiveEntityByIndex(i)
    \/ \E d \in Directions : CycleActiveEntity(d)

SpecParty == InitParty /\ [][NextParty]_vars

----------------------------------------------------------------------------
(* Properties of the Area *)

DeltaReturned == step.kind = "get_state_delta"

\* C3: when get_state_delta is called twice with no other Area operation in
\* between, the second call returns {} and leaves both sets as they were
\* (empty).
C3_SecondDeltaEmpty ==
    (DeltaReturned /\ delta_run.n = 2) =>
        /\ step.ret = "empty"
        /\ last_delta = EmptyDelta
        /\ dirty_entities = {} /\ removed_entities = {}

\* two calls in a row, the first of which returned a delta
C3_Witness == DeltaReturned /\ delta_run.n = 2 /\ delta_run.first = "delta"

\* C4 as claimed: an id removed from the map is listed exactly once in the
\* removed list of the next non-empty delta, and no delta returned after the
\* removal has the id among its entities.
C4_RemovedOnceNeverAgain ==
    DeltaReturned =>
        /\ last_delta.nonempty =>
               \A id \in was_pending : Count(id, last_delta.removed) = 1
        /\ \A id \in ever_removed : id \notin DOMAIN last_delta.entities

\* C4 as amended: an id removed from the map is listed exactly once in the
\* removed list of the next delta, which is non-empty, and no delta returned
\* while the id has not been added again has the id among its entities.
C4_RemovedOnceUntilReadded ==
    DeltaReturned =>
        /\ was_pending # {} => last_delta.nonempty
        /\ \A id \in was_pending : Count(id, last_delta.removed) = 1
        /\ \A id \in removed_absent : id \notin DOMAIN last_delta.entities

\* a delta that reports a removal while another entity is sent
C4_Witness ==
    /\ DeltaReturned /\ was_pending # {}
    /\ DOMAIN last_delta.entities # {}
    /\ removed_absent # {}
----------------------------------------------------------------------------
(* Properties of the GameLoop *)

Kinds == {"player_action", "party_command"}

\* thread t takes the next entry off the queue `kind`
Pops(t, kind) == pc[t] = DrainPc(kind) /\ pc'[t] = HandPc(kind)

\* thread t ends its drain of the queue `kind`
DrainEnds(t, kind) == pc[t] = DrainPc(kind) /\ pc'[t] = AfterDrain(kind)

\* C1: a queue_player_action / queue_party_command call made with an area
\* attached appends no second copy of its payload: once it has appended one
\* copy it returns.
C1_QueueCallAddsOneCopy ==
    caller.pc = "loop" => caller.appended <= 1

\* C2: a hand-over that raises does not end the loop: the thread goes on with
\* the drain of the same queue.
C2_FaultContained ==
    (step.kind = "hand" /\ step.ret = "raise") =>
        pc[step.actor] \in {"drain_pa", "drain_pc"}

\* a drain step leaves the entries it does not take where they are: a pop
\* takes the head, the end of a drain takes nothing
DrainKeepsRest(t, kind) ==
    /\ Pops(t, kind) => /\ item'[t] = Head(QueueOf(kind))
                        /\ QueueOf(kind)' = Tail(QueueOf(kind))
    /\ DrainEnds(t, kind) => QueueOf(kind)' = QueueOf(kind)
    /\ (pc[t] = DrainPc(kind) /\ pc'[t] # pc[t] /\ tick_age > TickUnits) =>
           DrainEnds(t, kind)

\* C5 as claimed: an entry is popped only while now < tick_start + T; once
\* the budget is used up the drain ends, and the entries not taken stay in
\* their queue in their order.
C5_PopsStrictlyBeforeBudget ==
    [][\A t \in Threads, kind \in Kinds :
           /\ Pops(t, kind) => tick_age < TickUnits
           /\ DrainKeepsRest(t, kind)]_vars

\* C5 as amended: an entry is popped only while now <= tick_start + T; once
\* now > tick_start + T the drain ends, and the entries not taken stay in
\* their queue in their order.
C5_PopsWithinBudget ==
    [][\A t \in Threads, kind \in Kinds :
           /\ Pops(t, kind) => tick_age <= TickUnits
           /\ DrainKeepsRest(t, kind)]_vars

\* a drain ended by the budget with an entry left in the queue
C5_Witness ==
    /\ step.kind = "drain_end" /\ step.ret = "budget"
    /\ player_action_queue # <<>>

\* C6: within each queue the entries are handed to the Area in the order of
\* their appending: every hand-over is of an entry appended later than the
\* one handed over before it.
C6_HandedInOrder ==
    [][\A kind \in Kinds :
           handed'[kind] # handed[kind] => handed'[kind] > handed[kind]]_vars

C8_NoTickAfterStop ==
    \A t \in Threads : stop_idle[t] => pc[t] \notin InTick

\* C9: start() on a stopped clock leaves running set, paused clear,
\* tick_count 0 and both queues empty.
C9_StartLeavesRunning ==
    (step.kind = "start" /\ step.ret = "spawned") =>
        /\ running /\ ~paused
        /\ tick_count = 0
        /\ player_action_queue = <<>> /\ party_command_queue = <<>>

\* C10: from the test of line 72 that found paused set until resume() is
\* called, the loop thread stays in its pause loop (so it calls no
\* Area.update, pops no entry and does not raise tick_count); once paused is
\* clear, its next step leaves the pause loop and begins the tick.
C10_PausedLoopWaits ==
    /\ [](\A t \in Threads : saw_paused[t] => paused /\ pc[t] = "pause_loop")
    /\ [][\A t \in Threads :
              (pc[t] = "pause_loop" /\ pc'[t] # pc[t]) =>
                  ~paused /\ pc'[t] = "drain_pa"]_vars

\* the loop waits in its pause loop while an entry is queued and a tick has
\* been counted
C10_Witness ==
    \E t \in Threads :
        saw_paused[t] /\ player_action_queue # <<>> /\ tick_count = 1
C12_OneUpdatePerTick ==
    /\ (step.kind = "get_state_delta" /\ step.actor \in Threads) =>
           /\ emitted.sent <=> last_delta.nonempty
           /\ emitted.sent => sent_tick[step.actor] = emitted.tick
    /\ emitted.sent => step.kind = "get_state_delta" /\ step.actor \in Threads
    /\ \A t \in Threads :
           sent_tick[t] # NoTick => pc[t] = "incr" /\ sent_tick[t] = tick_count
\* C13: every id in dirty_entities is a key of the entity map or is in
\* removed_entities, and every id deleted from the map since the last
\* get_state_delta is in removed_entities.
C13_DirtyAndRemovedTracked ==
    /\ \A id \in dirty_entities :
           id \in DOMAIN entities \/ id \in removed_entities
    /\ removed_pending \subseteq removed_entities

\* a dirty id that was removed from the map, next to one that is in the map
C13_Witness ==
    /\ \E id \in dirty_entities :
           id \notin DOMAIN entities /\ id \in removed_pending
    /\ \E id \in dirty_entities : id \in DOMAIN entities
\* C14: an id is in grid[C] if and only if entity_positions maps the id to C.
C14_GridConsistent ==
    /\ \A c \in DOMAIN grid : \A id \in grid[c] :
           id \in DOMAIN entity_positions /\ entity_positions[id] = c
    /\ \A id \in DOMAIN entity_positions :
           /\ entity_positions[id] \in DOMAIN grid
           /\ id \in grid[entity_positions[id]]
----------------------------------------------------------------------------
(* Properties of the PlayerCharacter *)

\* C15: whenever the controlled list is not empty, active_entity_index is an
\* index of it.
C15_ActiveIndexValid ==
    controlled_entity_objs # <<>> =>
        0 <= active_entity_index /\ active_entity_index < Len(controlled_entity_objs)

\* the last of two controlled entities was the active one and is removed
C15_Witness ==
    /\ step.kind = "remove_controlled_entity" /\ step.ret = "none"
    /\ Len(controlled_entity_objs) = 1
    /\ Len(controlled_entity_history) = 2
    /\ active_entity_index = 0
\* C16: no entity id occurs twice in the controlled list, and
\* add_controlled_entity of an id that is controlled changes nothing.
C16_NoIdTwice ==
    /\ \A i, j \in DOMAIN controlled_entity_objs :
           heap[controlled_entity_objs[i]].entity_id =
               heap[controlled_entity_objs[j]].entity_id => i = j
    /\ \A i, j \in DOMAIN controlled_entity_ids :
           controlled_entity_ids[i] = controlled_entity_ids[j] => i = j
\* C17: the history list only grows and holds every id that is or was
\* controlled, each once, and entities_controlled is the number of its ids.
C17_HistoryKept ==
    /\ [](/\ entities_controlled = Cardinality(Range(controlled_entity_history))
          /\ Len(controlled_entity_history) = entities_controlled
          /\ Range(controlled_entity_ids) \subseteq Range(controlled_entity_history)
          /\ \A i \in DOMAIN controlled_entity_objs :
                 heap[controlled_entity_objs[i]].entity_id
                     \in Range(controlled_entity_history))
    /\ [][SubSeq(controlled_entity_history', 1, Len(controlled_entity_history))
              = controlled_entity_history]_vars

\* an add after a removal: two ids in the history, one of them controlled
C17_Witness ==
    /\ step.kind = "add_controlled_entity"
    /\ entities_controlled = 2
    /\ Len(controlled_entity_ids) = 1 /\ Len(controlled_entity_objs) = 1
\* C18: when a loop thread has handed over a move action with direction
\* (0, 1) in a tick, the delta of that tick is sent and holds the active
\* entity with vy = 50, facing "down" and state "moving", as the entity has.
C18_MoveShowsInDelta ==
    \A t \in Threads :
        (step.kind = "get_state_delta" /\ step.actor = t /\ moved[t]) =>
            LET e == heap[controlled_entity_objs[active_entity_index + 1]]
            IN  /\ e.vy = BASE_SPEED /\ e.vx = 0
                /\ e.facing = "down" /\ e.state = "moving"
                /\ emitted.sent
                /\ e.entity_id \in DOMAIN last_delta.entities
                /\ last_delta.entities[e.entity_id] = Serialize(e)

\* the delta of a tick in which a move was handed over
C18_Witness ==
    \E t \in Threads :
        step.kind = "get_state_delta" /\ step.actor = t /\ moved[t]
\* C19: remove_entity of an id that is not in the map leaves the map, the
\* grid, dirty_entities, removed_entities and the entities as they are; an
\* id that was removed and not added again is not in the map, so a second
\* remove_entity of it is such a call.
C19_RemoveAbsentNoOp ==
    /\ [](removed_absent \cap DOMAIN entities = {})
    /\ [][(step'.kind = "remove_entity" /\ step'.ret = "absent") =>
              UNCHANGED <<heap, entities, grid, entity_positions,
                          dirty_entities, removed_entities>>]_vars

\* remove_entity of an absent id while another id was removed before and
\* its removal has been collected
C19_Witness ==
    /\ step.kind = "remove_entity" /\ step.ret = "absent"
    /\ removed_absent # {} /\ removed_entities = {}
    /\ DOMAIN entities # {}
\* what a player action may change of an entity
Attributes(e) == <<e.x, e.y, e.vx, e.vy, e.state, e.facing>>

\* the action lacks "type", or is a move without "direction", or names a
\* target the controller does not control
Malformed(a) ==
    /\ a.mapping
    /\ \/ "type" \notin DOMAIN a
       \/ a.type = "move" /\ "dx" \notin DOMAIN a
       \/ /\ Get(a, "target_entity_id", "") # ""
          /\ a.target_entity_id \notin Range(controlled_entity_ids)

\* C20: process_player_action with a malformed action, or with no
\* controller attached, raises nothing and changes no attribute of any
\* entity.
C20_MalformedActionNoOp ==
    [][(/\ step'.kind = "process_player_action"
        /\ step'.arg.mapping
        /\ Malformed(step'.arg) \/ ~player_controller) =>
           /\ step'.ret = "none"
           /\ \A r \in Refs : Attributes(heap'[r]) = Attributes(heap[r])]_vars
----------------------------------------------------------------------------
(* Properties of the Entity *)

\* C21: Entity.update(dt) of an entity at rest leaves its position and its
\* dirty flag as they were; of an entity in motion it adds (vx*dt, vy*dt)
\* to the position and sets the dirty flag; velocity, state and facing (and
\* every other object) stay as they were.
C21_UpdateMovesByVelocity ==
    step.kind = "entity_update" =>
        LET b == step.arg.before
            e == heap[step.arg.r]
            n == step.arg.n
        IN  /\ (b.vx = 0 /\ b.vy = 0) =>
                   e.x = b.x /\ e.y = b.y /\ e.is_dirty = b.is_dirty
            /\ (b.vx # 0 \/ b.vy # 0) =>
                   /\ e.x * TICK_RATE = b.x * TICK_RATE + b.vx * n
                   /\ e.y * TICK_RATE = b.y * TICK_RATE + b.vy * n
                   /\ e.is_dirty
            /\ e.vx = b.vx /\ e.vy = b.vy
            /\ e.state = b.state /\ e.facing = b.facing

\* an entity that moves up only, was not dirty, and has been updated
C21_Witness ==
    /\ step.kind = "entity_update" /\ step.arg.n = 1
    /\ step.arg.before.vx = 0 /\ step.arg.before.vy = -BASE_SPEED
    /\ ~step.arg.before.is_dirty
    /\ heap[step.arg.r].y = step.arg.before.y - 5
----------------------------------------------------------------------------
(* Properties of the SpatialGrid *)

\* C22: what query_radius(x, y, r, lookup) returns is a subset of
\* query_area(x - r, y - r, 2r, 2r), and with a lookup table every id
\* returned is in the table at a position (ex, ey) with
\* (ex - x)^2 + (ey - y)^2 <= r^2.
C22_RadiusWithinArea ==
    step.kind = "query_radius" =>
        LET q == step.arg IN
        /\ q.result \subseteq
               QueryArea(grid, q.x - q.radius, q.y - q.radius,
                         2 * q.radius, 2 * q.radius)
        /\ q.lookup.given =>
               \A id \in q.result :
                   /\ id \in DOMAIN q.lookup.map
                   /\ LET e == heap[q.lookup.map[id]]
                      IN  (e.x - q.x) * (e.x - q.x) + (e.y - q.y) * (e.y - q.y)
                              <= q.radius * q.radius

\* a query that returns one entity and leaves out another that is in a cell
\* of the bounding box but farther away than r
C22_Witness ==
    /\ step.kind = "query_radius" /\ step.arg.lookup.given
    /\ step.arg.result # {}
    /\ step.arg.result #
           QueryArea(grid, step.arg.x - step.arg.radius,
                     step.arg.y - step.arg.radius,
                     2 * step.arg.radius, 2 * step.arg.radius)
\* the cells other than those in `cells` hold what they held
OtherCellsSame(cells) ==
    /\ DOMAIN grid \ cells \subseteq DOMAIN grid'
    /\ \A c \in DOMAIN grid' \ cells : c \in DOMAIN grid /\ grid'[c] = grid[c]

\* C23: SpatialGrid.update(e) of an indexed entity whose position maps to
\* the cell recorded for it changes neither the grid nor the reverse map;
\* when the position maps to another cell, the id is taken out of the old
\* cell's set and put into the new cell's set, the reverse map points to
\* the new cell, and nothing else in either map changes.
C23_UpdateRecellsOnCrossing ==
    [][step'.kind = "grid_update" =>
          LET e        == heap[step'.arg.r]
              id       == e.entity_id
              new_cell == GetCell(e.x, e.y)
          IN  id \in DOMAIN entity_positions =>
                  LET old_cell == entity_positions[id] IN
                  /\ old_cell = new_cell =>
                         UNCHANGED <<grid, entity_positions>>
                  /\ old_cell # new_cell =>
                         /\ old_cell \in DOMAIN grid =>
                                grid'[old_cell] = grid[old_cell] \ {id}
                         /\ new_cell \in DOMAIN grid'
                         /\ grid'[new_cell] =
                                (IF new_cell \in DOMAIN grid
                                 THEN grid[new_cell] ELSE {}) \cup {id}
                         /\ OtherCellsSame({old_cell, new_cell})
                         /\ entity_positions' =
                                [entity_positions EXCEPT ![id] = new_cell]]_vars

\* an entity that moved into another cell has been re-indexed there, and
\* the cell it left holds the other entity only
C23_Witness ==
    /\ step.kind = "grid_update"
    /\ "e1" \in DOMAIN entity_positions
    /\ entity_positions["e1"] = <<0, 1>>
    /\ <<0, 0>> \in DOMAIN grid /\ grid[<<0, 0>>] = {"e2"}
    /\ grid[<<0, 1>>] = {"e1"}
----------------------------------------------------------------------------
(* Properties of the saved controller *)

\* C24: the controller loaded from the document that serialize() wrote has
\* the player_id, the controlled id list, the active index, the controlled
\* history and the player stats of the controller that was saved.
C24_SaveLoadRoundTrip ==
    step.kind = "load_from_file" =>
        /\ step.arg.loaded.player_id = step.arg.saved.player_id
        /\ step.arg.loaded.controlled_entity_ids =
               step.arg.saved.controlled_entity_ids
        /\ step.arg.loaded.active_entity_index =
               step.arg.saved.active_entity_index
        /\ step.arg.loaded.controlled_entity_history =
               step.arg.saved.controlled_entity_history
        /\ step.arg.loaded.player_stats = step.arg.saved.player_stats
\* where a thread at `at` goes next in an iteration run in the order of
\* lines 79-92
NextInTick(at) ==
    CASE at = "drain_pa" -> {"hand_pa", "drain_pc"}
      [] at = "hand_pa"  -> {"drain_pa"}
      [] at = "drain_pc" -> {"hand_pc", "update"}
      [] at = "hand_pc"  -> {"drain_pc"}
      [] at = "update"   -> {"delta"}
      [] at = "delta"    -> {"incr"}
      [] at = "incr"     -> {"loop_head"}

\* C25: an iteration begun goes through its steps in the order: drain of
\* the player actions, drain of the party commands, Area.update,
\* get_state_delta and emit, tick_count + 1, and then is back at the loop
\* test; tick_count is raised only there, by 1 (start() sets it to 0).
C25_IterationInOrder ==
    [][/\ \A t \in Threads :
              (pc[t] \in InTick /\ pc'[t] # pc[t]) =>
                  /\ pc'[t] \in NextInTick(pc[t])
                  /\ pc[t] = "incr" => tick_count' = tick_count + 1
       /\ tick_count' # tick_count =>
              \/ step'.kind = "start"
              \/ \E t \in Threads : pc[t] = "incr" /\ pc'[t] = "loop_head"]_vars
\* thread t is executing run()
InRun(t) == Alive(t) /\ pc[t] # "spawned"

\* C26: at most one thread is executing GameLoop.run at any time.
C26_OneLoopThread ==
    \A t, u \in Threads : (InRun(t) /\ InRun(u)) => t = u
\* C27: while the clock stays running and not paused, the entry at the head
\* of either queue is in the end taken off it and handed to the Area (and
\* so, in turn, is every entry behind it).
C27_EveryEntryHanded ==
    \A kind \in Kinds :
        [](QueueOf(kind) # <<>> =>
              <>(~running \/ paused \/ \E t \in Threads : pc[t] = HandPc(kind)))
\* C28: with no Area attached, a loop thread ends only at the loop test,
\* when stop() has cleared running; it is not ended by a fault.
C28_LoopSurvivesNoArea ==
    [][\A t \in Threads :
           (~current_area /\ Alive(t) /\ pc'[t] \in {"done", "crashed"}) =>
               pc'[t] = "done" /\ ~running]_vars
----------------------------------------------------------------------------
(* Properties of execute_action *)

\* the objects an action is for: all controlled entities when
\* apply_to_party is set; else the controlled entity named by
\* target_entity_id; else the active entity
ClaimedTargets(a) ==
    IF a.apply_to_party THEN Range(controlled_entity_objs)
    ELSE IF a.target_entity_id # ""
         THEN {r \in Range(controlled_entity_objs) :
                  heap[r].entity_id = a.target_entity_id}
         ELSE IF controlled_entity_objs = <<>> THEN {}
              ELSE {controlled_entity_objs[active_entity_index + 1]}

\* C29: execute_action changes no entity outside the action's target set,
\* and with an empty target set it changes nothing and raises nothing.
C29_OnlyTargetsChange ==
    [][(step'.kind = "process_player_action" /\ player_controller) =>
          LET targets == ClaimedTargets(step'.arg)
          IN  /\ \A r \in Refs \ targets : heap'[r] = heap[r]
              /\ targets = {} => heap' = heap /\ step'.ret = "none"]_vars

\* an action for the party has been applied to both controlled entities,
\* and the third entity object is as it was made
C29_Witness ==
    /\ step.kind = "process_player_action" /\ step.arg.apply_to_party
    /\ Len(controlled_entity_objs) = 2
    /\ \A r \in Range(controlled_entity_objs) : heap[r].state = "attacking"
    /\ \E r \in Refs : heap[r] = Objects[r]
\* C30: after a move action with direction (dx, dy) for the active entity,
\* whose walking-speed modifier is m: velocity = (dx*50*m, dy*50*m); facing
\* is "up" if dy < 0, "down" if dy > 0, else "left" if dx < 0, "right" if
\* dx > 0, and as before when dx = dy = 0; state is "moving" when the
\* velocity is not zero and "idle" when it is; the dirty flag is set.
C30_MoveSetsVelocityFacing ==
    [][(/\ step'.kind = "process_player_action"
        /\ player_controller /\ controlled_entity_objs # <<>>) =>
          LET r  == controlled_entity_objs[active_entity_index + 1]
              dx == step'.arg.dx
              dy == step'.arg.dy
              m  == heap[r].walking_speed
              e  == heap'[r]
          IN  /\ e.vx = dx * 50 * m /\ e.vy = dy * 50 * m
              /\ e.facing = IF dy < 0 THEN "up"
                            ELSE IF dy > 0 THEN "down"
                            ELSE IF dx < 0 THEN "left"
                            ELSE IF dx > 0 THEN "right"
                            ELSE heap[r].facing
              /\ e.state = "moving" <=> (e.vx # 0 \/ e.vy # 0)
              /\ e.state = "idle" <=> (e.vx = 0 /\ e.vy = 0)
              /\ e.is_dirty]_vars

\* an entity that walks twice as fast has been sent up and to the right:
\* it faces up
C30_Witness ==
    /\ step.kind = "process_player_action"
    /\ step.arg.dx = 1 /\ step.arg.dy = -1
    /\ heap[1].walking_speed = 2
    /\ heap[1].vx = 100 /\ heap[1].vy = -100
    /\ heap[1].facing = "up" /\ heap[1].state = "moving"
----------------------------------------------------------------------------
(* Properties of the Area's dirty tracking *)

\* C31: after process_player_action with a controller attached, every
\* controlled entity whose id is in the entity map is in dirty_entities,
\* whatever the action was for.
C31_ControlledMarkedDirty ==
    (step.kind = "process_player_action" /\ step.ret = "none"
        /\ player_controller) =>
        \A r \in Range(controlled_entity_objs) :
            heap[r].entity_id \in DOMAIN entities =>
                heap[r].entity_id \in dirty_entities

\* an action without a type, with two controlled entities that are in the
\* map and a third entity object that is not controlled
C31_Witness ==
    /\ step.kind = "process_player_action" /\ step.arg = NoType
    /\ player_controller
    /\ Len(controlled_entity_objs) = 2
    /\ dirty_entities = {"e1", "e2"}
    /\ last_delta = EmptyDelta
\* C32: process_party_command with a member_id that is in the entity map
\* calls receive_command on the entity stored under it and on no other, and
\* adds that id and no other to dirty_entities; with a member_id that is
\* missing or not in the map it raises nothing and leaves the map, every
\* entity, dirty_entities and removed_entities as they were.
C32_CommandReachesMemberOnly ==
    [][(step'.kind = "process_party_command" /\ step'.arg.mapping) =>
          LET c  == step'.arg
              id == IF "member_id" \in DOMAIN c THEN c.member_id ELSE "None"
          IN  /\ step'.ret = "none"
              /\ UNCHANGED <<entities, removed_entities>>
              /\ IF id \in DOMAIN entities
                 THEN /\ heap'[entities[id]] = ReceiveCommand(heap[entities[id]], c)
                      /\ \A r \in Refs \ {entities[id]} : heap'[r] = heap[r]
                      /\ dirty_entities' = dirty_entities \cup {id}
                 ELSE UNCHANGED <<heap, dirty_entities>>]_vars

\* a party member has taken an attack command after a delta collection: it
\* alone is dirty, and the other entity in the map is as it was made
C32_Witness ==
    /\ step.kind = "process_party_command"
    /\ step.arg = Command("e2", "attack_target")
    /\ DOMAIN entities = {"e1", "e2"}
    /\ heap[entities["e2"]].state = "attacking"
    /\ heap[entities["e1"]] = Objects[entities["e1"]]
    /\ dirty_entities = {"e2"}
\* C33: after Area.update, the cell recorded in the spatial grid for each
\* entity in the map is the cell of the entity's position.
C33_GridFollowsUpdate ==
    step.kind = "update" =>
        \A id \in DOMAIN entities :
            /\ id \in DOMAIN entity_positions
            /\ entity_positions[id] =
                   GetCell(heap[entities[id]].x, heap[entities[id]].y)

\* C34: no change is lost between delta collections: whenever the snapshot of
\* an entity in the map differs from the one in the last delta that
\* contained its id, the entity's dirty flag is set or its id is in
\* dirty_entities.
C34_NoChangeLost ==
    \A id \in DOMAIN entities \cap DOMAIN last_sent :
        Serialize(heap[entities[id]]) # last_sent[id] =>
            heap[entities[id]].is_dirty \/ id \in dirty_entities

\* e1 was sent where it was made and has since been moved by Area.update,
\* which reset its flag and recorded its id
C34_Witness ==
    /\ step.kind = "update"
    /\ "e1" \in DOMAIN entities /\ "e1" \in DOMAIN last_sent
    /\ last_sent["e1"].y = 30
    /\ heap[entities["e1"]].y = 35
    /\ ~heap[entities["e1"]].is_dirty
    /\ "e1" \in dirty_entities

\* C35: after Area.load_player_controller every controlled entity whose id
\* is a key of the entity map is the very object the map holds under that id.
C35_ControlledIsMapped ==
    step.kind = "load_player_controller" =>
        \A r \in Range(controlled_entity_objs) :
            heap[r].entity_id \in DOMAIN entities =>
                entities[heap[r].entity_id] = r

\* C36: Area.get_full_state returns the snapshot of every entity in the map
\* and the world's width and height, and leaves dirty_entities,
\* removed_entities, the map and every entity (its dirty flag included) as
\* they were.
C36_FullStateReadsAll ==
    [][step'.kind = "get_full_state" =>
          /\ DOMAIN step'.arg.entities = DOMAIN entities
          /\ \A id \in DOMAIN entities :
                 step'.arg.entities[id] = Serialize(heap[entities[id]])
          /\ step'.arg.world = [width |-> 1000, height |-> 1000]
          /\ dirty_entities' = dirty_entities
          /\ removed_entities' = removed_entities
          /\ entities' = entities
          /\ heap' = heap]_vars

\* a full state of two entities, one of them with its flag reset, was read
\* while an entity was waiting in dirty_entities and an id in removed_entities
C36_Witness ==
    /\ step.kind = "get_full_state"
    /\ DOMAIN step.arg.entities = {"e1", "e2"}
    /\ ~heap[entities["e1"]].is_dirty
    /\ step.arg.entities["e2"].state = "attacking"
    /\ "e2" \in dirty_entities
    /\ removed_entities # {}

\* C37: remove_controlled_entity of a controlled entity other than the
\* active one (the active one is still in the list afterwards) leaves
\* get_active_entity() returning the same entity.
C37_RemoveKeepsActive ==
    [][(/\ step'.kind = "remove_controlled_entity"
        /\ ActiveEntity(controlled_entity_objs, active_entity_index) # {}
        /\ ActiveEntity(controlled_entity_objs, active_entity_index)
               \subseteq Range(controlled_entity_objs'))
       => ActiveEntity(controlled_entity_objs', active_entity_index') =
          ActiveEntity(controlled_entity_objs, active_entity_index)]_vars

\* C38: controlled_entity_ids and controlled_entity_objs have the same length
\* and controlled_entity_ids[i] is the id of controlled_entity_objs[i].
C38_ListsAligned ==
    /\ Len(controlled_entity_ids) = Len(controlled_entity_objs)
    /\ \A i \in DOMAIN controlled_entity_ids :
           i \in DOMAIN controlled_entity_objs =>
               controlled_entity_ids[i] = heap[controlled_entity_objs[i]].entity_id

\* C39: every result of get_state_delta other than {} holds at least one
\* entity snapshot or at least one removed id.
C39_DeltaNeverHollow ==
    last_delta.nonempty =>
        DOMAIN last_delta.entities # {} \/ last_delta.removed # <<>>

\* a delta made while the only dirty id was no longer in the map: it holds
\* no snapshot, and the removed id
C39_Witness ==
    /\ step.kind = "get_state_delta"
    /\ last_delta.nonempty
    /\ DOMAIN last_delta.entities = {}
    /\ last_delta.removed = <<"e1">>
    /\ entities = EmptyMap

====
